---------------------------- MODULE Spec2Model ----------------------------
(***************************************************************************)
(* A model of src/src/scrobble_songs.py: the batch run of main(), the      *)
(* retry loop of scrobble_with_retry() and the read-modify-write of        *)
(* append_json().  The control thread is single and every wait is a        *)
(* blocking sleep, so an action runs the code from one blocking point      *)
(* (the network call, a sleep, a file operation) to the next.              *)
(***************************************************************************)
EXTENDS Integers, Sequences, FiniteSets, TLC

VARIABLES
    start_index,        \* --start-index
    songs,              \* json.load(file)[start_index:]
    max_retries,        \* scrobble_with_retry's parameter
    client,             \* the errors network.scrobble may raise in this run
    i,                  \* the loop index of main (0-based)
    attempt,            \* the loop index of scrobble_with_retry (0-based)
    e,                  \* the exception caught last in scrobble_with_retry
    result,             \* what scrobble_with_retry returned: (success, error_msg)
    success_count,
    error_count,
    consecutive_errors,
    failed_songs,
    halted,             \* the break of line 130 was taken
    scrobbled_files,    \* ../logs/scrobbled_files.txt, a sequence of lines
    failed_file,        \* ../logs/failed_songs.json
    new_data,           \* append_json's parameter
    data,               \* append_json's local
    pc,                 \* where the control thread is
    events,             \* what the current item has done so far: calls, sleeps, notices
    submitted,          \* the loop indexes whose song reached network.scrobble
    before,             \* failed_songs.json as it was when append_json was called
    failed_at,          \* the loop indexes whose scrobble_with_retry returned failure
    pc2,                \* where a second process is in its own append_json
    new_data2,          \* that call's parameter
    data2,              \* that call's local
    overlap             \* the two calls of append_json have run at the same time

vars == <<start_index, songs, max_retries, client, i, attempt, e, result,
          success_count, error_count, consecutive_errors, failed_songs, halted,
          scrobbled_files, failed_file, new_data, data, pc, events, submitted,
          before, failed_at, pc2, new_data2, data2, overlap>>

\* the state of the second process
other == <<pc2, new_data2, data2, overlap>>

---------------------------------------------------------------------------
(* Bounds of the model. *)

MaxBatch == 12          \* the longest batch whose client may fail
MaxRetriesArg == 7      \* the largest max_retries a direct call is given
MaxNew == 2             \* the longest new_data a direct append_json call is given
MaxArtifact == 4        \* the longest array direct append_json calls build

(* The numbers of the program. *)

DEFAULT_MAX_RETRIES == 5
BACKOFF_BASE == 2
BACKOFF_CAP == 60
PENALTY_AFTER == 3
PENALTY_STEP == 10
PENALTY_CAP == 60
HALT_AFTER == 10
PROGRESS_EVERY == 100
COOLDOWN_EVERY == 500
COOLDOWN_SLEEP == 120

Min(a, b) == IF a < b THEN a ELSE b

RECURSIVE Pow(_, _)
Pow(b, n) == IF n = 0 THEN 1 ELSE b * Pow(b, n - 1)

---------------------------------------------------------------------------
(* Exceptions and their text.  A text is a sequence of characters, so that *)
(* lower() and the substring test of line 66 are computed, not assumed.    *)

Types == {"NetworkError", "MalformedResponseError", "WSError", "Exception"}

T500 == <<"5", "0", "0">>
T502 == <<"5", "0", "2">>
T503 == <<"5", "0", "3">>
TTimeout == <<"T", "i", "m", "e", "o", "u", "t">>
TRateLimit == <<"R", "a", "t", "e", " ", "L", "i", "m", "i", "t">>
TBad == <<"b", "a", "d">>

Texts == {T500, T502, T503, TTimeout, TRateLimit, TBad}

Errors == [type : Types, text : Texts]

NoError == [type |-> "none", text |-> <<>>]

LowerChar(c) ==
    CASE c = "T" -> "t"
      [] c = "R" -> "r"
      [] c = "L" -> "l"
      [] OTHER -> c

\* str(e).lower()
Lower(text) == [k \in 1..Len(text) |-> LowerChar(text[k])]

\* code in error_str
Contains(text, code) ==
    \E k \in 0..(Len(text) - Len(code)) : SubSeq(text, k + 1, k + Len(code)) = code

Codes == {T502, T500, T503,
          <<"t", "i", "m", "e", "o", "u", "t">>,
          <<"r", "a", "t", "e", " ", "l", "i", "m", "i", "t">>}

\* Caught gone wrong: the first except clause catches everything
CaughtAll(err) == TRUE

\* line 62: the exception classes the first except clause catches
Caught(err) == err.type \in {"NetworkError", "MalformedResponseError", "WSError"}

\* line 66
IsServerError(err) == \E code \in Codes : Contains(Lower(err.text), code)

\* BackoffWait gone wrong: the exponent is the 0-based attempt
BackoffWaitFromOne(a) == Min(BACKOFF_CAP, Pow(BACKOFF_BASE, a))

\* line 69
BackoffWait(a) == Min(BACKOFF_CAP, Pow(BACKOFF_BASE, a + 1))

\* the f-strings of lines 73, 76, 79 and the literal of line 81
Msg(prefix, n, err) == [prefix |-> prefix, attempts |-> n, text |-> err.text]

NoMsg == [prefix |-> "None", attempts |-> 0, text |-> <<>>]

\* an entry of events
Ev(ev, a, b, c) == [ev |-> ev, a |-> a, b |-> b, c |-> c]

\* what events keeps of a raised exception: its class, and whether its text
\* is one that reports a server error, a timeout or a rate limit
TypeCode(err) ==
    CASE err.type = "NetworkError" -> 1
      [] err.type = "MalformedResponseError" -> 2
      [] err.type = "WSError" -> 3
      [] OTHER -> 4

Marked(err) == IF err.text \in {T500, T502, T503, TTimeout, TRateLimit} THEN 1 ELSE 0

\* the entry of the n-th call of network.scrobble: it returned, or raised err
Returned(n) == Ev("call", n, 0, 0)
Raised(n, err) == Ev("call", n, TypeCode(err), Marked(err))


---------------------------------------------------------------------------
(* scrobble_with_retry, lines 49-81. *)

\* Outcome gone wrong: every caught exception is retried while attempts remain
OutcomeRetriesAll(err, a, mr) ==
    IF Caught(err)
    THEN IF a < mr - 1 THEN "retry"
         ELSE IF IsServerError(err) THEN "server_error" ELSE "api_error"
    ELSE "unexpected"

\* Outcome gone wrong: the test of line 67 is attempt < max_retries
OutcomeOneMore(err, a, mr) ==
    IF Caught(err)
    THEN IF IsServerError(err)
         THEN IF a < mr THEN "retry" ELSE "server_error"
         ELSE "api_error"
    ELSE "unexpected"

\* What one iteration of the loop does with a raised exception (lines 62-79):
\* sleep and go round again, or return one of the three failures.
Outcome(err, a, mr) ==
    IF Caught(err)
    THEN IF IsServerError(err)
         THEN IF a < mr - 1 THEN "retry" ELSE "server_error"
         ELSE "api_error"
    ELSE "unexpected"

\* The error_msg of lines 73, 76 and 79.
FailureMsg(err, a, mr) ==
    CASE Outcome(err, a, mr) = "server_error" -> Msg("Server error after", mr, err)
      [] Outcome(err, a, mr) = "api_error"    -> Msg("API error", 0, err)
      [] OTHER                                -> Msg("Unexpected error", 0, err)

NoResult == [ok |-> FALSE, error_msg |-> NoMsg]

\* events restart with the first call made for an item
Since(a) == IF a = 0 THEN <<>> ELSE events

\* lines 54-60: network.scrobble returns and the function returns (True, None)
ScrobbleReturns ==
    /\ pc = "call"
    /\ attempt < max_retries
    /\ events' = Append(Since(attempt), Returned(attempt + 1))
    /\ submitted' = submitted \cup {i}
    /\ result' = [ok |-> TRUE, error_msg |-> NoMsg]
    /\ pc' = "returned"
    /\ UNCHANGED <<start_index, songs, max_retries, client, i, attempt, e,
                   success_count, error_count, consecutive_errors, failed_songs,
                   halted, scrobbled_files, failed_file, new_data, data,
                   before,
                   failed_at, other>>

\* lines 62-71: a server error with attempts left: the notice, then time.sleep
ScrobbleRetries ==
    /\ pc = "call"
    /\ attempt < max_retries
    /\ \E err \in client :
        /\ Outcome(err, attempt, max_retries) = "retry"
        /\ e' = err
        /\ events' = Since(attempt) \o
                       << Raised(attempt + 1, err),
                          Ev("retry_notice", attempt + 1, max_retries, BackoffWait(attempt)) >>
    /\ submitted' = submitted \cup {i}
    /\ pc' = "backoff"
    /\ UNCHANGED <<start_index, songs, max_retries, client, i, attempt, result,
                   success_count, error_count, consecutive_errors, failed_songs,
                   halted, scrobbled_files, failed_file, new_data, data,
                   before,
                   failed_at, other>>

\* line 71 returns; the for loop of line 52 takes the next attempt
BackoffSleep ==
    /\ pc = "backoff"
    /\ events' = Append(events, Ev("sleep", BackoffWait(attempt), 0, 0))
    /\ attempt' = attempt + 1
    /\ pc' = "call"
    /\ UNCHANGED <<start_index, songs, max_retries, client, i, e, result,
                   success_count, error_count, consecutive_errors, failed_songs,
                   halted, scrobbled_files, failed_file, new_data, data, submitted,
                   before,
                   failed_at, other>>

\* lines 73, 76, 79: the function returns (False, error_msg)
ScrobbleFails ==
    /\ pc = "call"
    /\ attempt < max_retries
    /\ \E err \in client :
        /\ Outcome(err, attempt, max_retries) # "retry"
        /\ e' = err
        /\ result' = [ok |-> FALSE, error_msg |-> FailureMsg(err, attempt, max_retries)]
        /\ events' = Append(Since(attempt), Raised(attempt + 1, err))
    /\ submitted' = submitted \cup {i}
    /\ failed_at' = failed_at \cup {i}
    /\ pc' = "returned"
    /\ UNCHANGED <<start_index, songs, max_retries, client, i, attempt,
                   success_count, error_count, consecutive_errors, failed_songs,
                   halted, scrobbled_files, failed_file, new_data, data,
                   before,
                   other>>

\* line 81: range(max_retries) is empty or used up without a return
RetriesExceeded ==
    /\ pc = "call"
    /\ attempt >= max_retries
    /\ result' = [ok |-> FALSE, error_msg |-> Msg("Max retries exceeded", 0, NoError)]
    /\ failed_at' = failed_at \cup {i}
    /\ pc' = "returned"
    /\ UNCHANGED <<start_index, songs, max_retries, client, i, attempt, e,
                   success_count, error_count, consecutive_errors, failed_songs,
                   halted, scrobbled_files, failed_file, new_data, data, events,
                   submitted,
                   before,
                   other>>

---------------------------------------------------------------------------
(* main, lines 100-154. *)

Song(k) == [artistName |-> "artist", trackName |-> k]

\* FailedSong gone wrong: the error message is not attached
FailedSongNoError(song, msg) ==
    [artistName |-> song.artistName, trackName |-> song.trackName, error |-> NoMsg]

\* line 119: {**song, 'error': error_msg}
FailedSong(song, msg) ==
    [artistName |-> song.artistName, trackName |-> song.trackName, error |-> msg]

\* lines 101-104: the counters and the failure list of a run
BatchState ==
    [success_count |-> success_count, error_count |-> error_count,
     consecutive_errors |-> consecutive_errors, failed_songs |-> failed_songs]

\* OnSuccess gone wrong: the reset of line 111 is missing
OnSuccessKeepsStreak(st) ==
    [st EXCEPT !.success_count = @ + 1]

\* lines 110-111
OnSuccess(st) ==
    [st EXCEPT !.success_count = @ + 1, !.consecutive_errors = 0]

\* OnFailure gone wrong: line 117 is missing
OnFailureUncounted(st, song, msg) ==
    [st EXCEPT !.consecutive_errors = @ + 1,
               !.failed_songs = Append(@, FailedSong(song, msg))]

\* OnFailure gone wrong: the record is put at the head of the list
OnFailurePrepends(st, song, msg) ==
    [st EXCEPT !.error_count = @ + 1,
               !.consecutive_errors = @ + 1,
               !.failed_songs = <<FailedSong(song, msg)>> \o @]

\* OnFailure gone wrong: the streak is taken from the total
OnFailureStreakIsTotal(st, song, msg) ==
    [st EXCEPT !.error_count = @ + 1,
               !.consecutive_errors = st.error_count + 1,
               !.failed_songs = Append(@, FailedSong(song, msg))]

\* lines 117-119
OnFailure(st, song, msg) ==
    [st EXCEPT !.error_count = @ + 1,
               !.consecutive_errors = @ + 1,
               !.failed_songs = Append(@, FailedSong(song, msg))]

\* line 124
PenaltyWait(c) == Min(PENALTY_CAP, c * PENALTY_STEP)

\* ProgressDue gone wrong: start_index is left out
ProgressDueNoOffset(si, idx) == (idx + 1) % PROGRESS_EVERY = 0

\* line 114
ProgressDue(si, idx) == (si + idx + 1) % PROGRESS_EVERY = 0

\* CooldownDue gone wrong: the 0-based index is tested
CooldownDueAtZero(idx) == idx % COOLDOWN_EVERY = 0

\* line 136
CooldownDue(idx) == (idx + 1) % COOLDOWN_EVERY = 0

\* HaltDue gone wrong: >= for >
HaltDueEarly(c) == c >= HALT_AFTER

\* HaltDue gone wrong: the threshold of line 123 for that of line 128
HaltDueAtPenalty(c) == c > PENALTY_AFTER

\* line 128
HaltDue(c) == c > HALT_AFTER

\* PenaltyDue gone wrong: the third failure in a row is penalised already
PenaltyDueAtThree(c) == c >= PENALTY_AFTER

\* line 123
PenaltyDue(c) == c > PENALTY_AFTER

\* HaltCheck gone wrong: a return in place of the break of line 130
HaltCheckReturns(c, evs) ==
    IF HaltDue(c)
    THEN /\ halted' = TRUE
         /\ events' = Append(evs, Ev("halt_notice", 0, 0, 0))
         /\ pc' = "done"
    ELSE /\ halted' = halted
         /\ events' = evs
         /\ pc' = "delay"

\* lines 128-130, reached with consecutive_errors = c and events = evs:
\* the break, or on to the sleep of line 133
HaltCheck(c, evs) ==
    IF HaltDue(c)
    THEN /\ halted' = TRUE
         /\ events' = Append(evs, Ev("halt_notice", 0, 0, 0))
         /\ pc' = "write_log"
    ELSE /\ halted' = halted
         /\ events' = evs
         /\ pc' = "delay"

\* line 106: the for loop takes the next song, or ends
NextItem ==
    IF i + 1 < Len(songs)
    THEN /\ i' = i + 1
         /\ attempt' = 0
         /\ e' = NoError
         /\ result' = NoResult
         /\ pc' = "call"
    ELSE /\ pc' = "write_log"
         /\ UNCHANGED <<i, attempt, e, result>>

\* lines 109-115, then 128
HandleSuccess ==
    /\ pc = "returned"
    /\ result.ok
    /\ LET st == OnSuccess(BatchState)
       IN /\ success_count' = st.success_count
          /\ consecutive_errors' = st.consecutive_errors
          /\ HaltCheck(st.consecutive_errors,
               IF ProgressDue(start_index, i)
               THEN Append(events, Ev("progress", start_index + i + 1,
                                      st.success_count, st.error_count))
               ELSE events)
    /\ UNCHANGED <<start_index, songs, max_retries, client, i, attempt, e, result,
                   error_count, failed_songs, scrobbled_files, failed_file,
                   new_data, data, submitted,
                   before,
                   failed_at, other>>

\* lines 116-126, then 128 unless the sleep of line 126 comes first
HandleFailure ==
    /\ pc = "returned"
    /\ ~result.ok
    /\ LET st == OnFailure(BatchState, songs[i + 1], result.error_msg)
           evs == Append(events, Ev("error_notice", i + 1, Len(songs), 0))
       IN /\ error_count' = st.error_count
          /\ consecutive_errors' = st.consecutive_errors
          /\ failed_songs' = st.failed_songs
          /\ IF PenaltyDue(st.consecutive_errors)
             THEN /\ events' = Append(evs, Ev("penalty_notice",
                                              PenaltyWait(st.consecutive_errors), 0, 0))
                  /\ pc' = "penalty"
                  /\ halted' = halted
             ELSE HaltCheck(st.consecutive_errors, evs)
    /\ UNCHANGED <<start_index, songs, max_retries, client, i, attempt, e, result,
                   success_count, scrobbled_files, failed_file, new_data, data,
                   submitted,
                   before,
                   failed_at, other>>

\* line 126 returns, then 128
PenaltySleep ==
    /\ pc = "penalty"
    /\ HaltCheck(consecutive_errors,
                 Append(events, Ev("penalty_sleep", PenaltyWait(consecutive_errors), 0, 0)))
    /\ UNCHANGED <<start_index, songs, max_retries, client, i, attempt, e, result,
                   success_count, error_count, consecutive_errors, failed_songs,
                   scrobbled_files, failed_file, new_data, data, submitted,
                   before,
                   failed_at, other>>

\* line 133 returns, then 136-138 or the next song
DelaySleep ==
    /\ pc = "delay"
    /\ IF CooldownDue(i)
       THEN /\ events' = events \o << Ev("delay", 0, 0, 0), Ev("cooldown_notice", i + 1, 0, 0) >>
            /\ pc' = "cooldown"
            /\ UNCHANGED <<i, attempt, e, result>>
       ELSE /\ events' = Append(events, Ev("delay", 0, 0, 0))
            /\ NextItem
    /\ UNCHANGED <<start_index, songs, max_retries, client,
                   success_count, error_count, consecutive_errors, failed_songs,
                   halted, scrobbled_files, failed_file, new_data, data, submitted,
                   before,
                   failed_at, other>>

\* line 138 returns, then the next song
CooldownSleep ==
    /\ pc = "cooldown"
    /\ events' = Append(events, Ev("cooldown_sleep", COOLDOWN_SLEEP, 0, 0))
    /\ NextItem
    /\ UNCHANGED <<start_index, songs, max_retries, client,
                   success_count, error_count, consecutive_errors, failed_songs,
                   halted, scrobbled_files, failed_file, new_data, data, submitted,
                   before,
                   failed_at, other>>

file_basename == "batch.json"

\* FlushDue gone wrong: append_json is called whatever the list holds
FlushDueAlways(fs) == TRUE

\* line 147: if failed_songs
FlushDue(fs) == fs # <<>>

\* lines 141-148: the line appended to scrobbled_files.txt, then append_json
\* is called when failed_songs is not empty
WriteLog ==
    /\ pc = "write_log"
    /\ scrobbled_files' = Append(scrobbled_files, file_basename)
    /\ events' = Append(events, Ev("added_notice", 0, 0, 0))
    /\ before' = failed_file
    /\ IF FlushDue(failed_songs)
       THEN /\ new_data' = failed_songs
            /\ pc' = "append_load"
       ELSE /\ new_data' = new_data
            /\ pc' = "summary"
    /\ UNCHANGED <<start_index, songs, max_retries, client, i, attempt, e, result,
                   success_count, error_count, consecutive_errors, failed_songs,
                   halted, failed_file, data, submitted,
                   failed_at, other>>

\* lines 149-154
Summarize ==
    /\ pc \in {"summary", "appended"}
    /\ events' =
         (IF pc = "appended"
          THEN Append(events, Ev("wrote_notice", Len(failed_songs), 0, 0))
          ELSE events)
         \o << Ev("summary", success_count, error_count, Len(songs)) >>
    /\ pc' = "done"
    /\ UNCHANGED <<start_index, songs, max_retries, client, i, attempt, e, result,
                   success_count, error_count, consecutive_errors, failed_songs,
                   halted, scrobbled_files, failed_file, new_data, data, submitted,
                   before,
                   failed_at, other>>

---------------------------------------------------------------------------
(* append_json, lines 30-47. *)

\* failed_songs.json: absent, a file of no bytes, or a file holding a JSON array
Absent == [kind |-> "absent", data |-> <<>>]
NoBytes == [kind |-> "empty", data |-> <<>>]
JsonArray(d) == [kind |-> "array", data |-> d]

\* Loaded gone wrong: the file is not read
LoadedIgnoresFile(f) == <<>>

\* lines 34-38: path.exists(), then json.load(f) or []
Loaded(f) == IF f.kind = "absent" THEN <<>> ELSE f.data

\* Extended gone wrong: data = new_data
ExtendedReplaces(d, nd) == nd

\* line 41: data.extend(new_data)
Extended(d, nd) == d \o nd

\* lines 34-41
AppendLoad ==
    /\ pc = "append_load"
    /\ failed_file.kind \in {"absent", "array"}
    /\ data' = Extended(Loaded(failed_file), new_data)
    /\ pc' = "append_open"
    /\ UNCHANGED <<start_index, songs, max_retries, client, i, attempt, e, result,
                   success_count, error_count, consecutive_errors, failed_songs,
                   halted, scrobbled_files, failed_file, new_data, events, submitted,
                   before,
                   failed_at, other>>

\* line 36 on a file that holds no JSON document: json.load raises
AppendLoadFails ==
    /\ pc = "append_load"
    /\ failed_file.kind = "empty"
    /\ pc' = "raised"
    /\ UNCHANGED <<start_index, songs, max_retries, client, i, attempt, e, result,
                   success_count, error_count, consecutive_errors, failed_songs,
                   halted, scrobbled_files, failed_file, new_data, data, events,
                   submitted,
                   before,
                   failed_at, other>>

\* line 44: path.open("w") creates the file or truncates it
AppendOpen ==
    /\ pc = "append_open"
    /\ failed_file' = NoBytes
    /\ pc' = "append_dump"
    /\ UNCHANGED <<start_index, songs, max_retries, client, i, attempt, e, result,
                   success_count, error_count, consecutive_errors, failed_songs,
                   halted, scrobbled_files, new_data, data, events, submitted,
                   before,
                   failed_at, other>>

\* lines 45-47: json.dump, the file is closed, the function returns
AppendDump ==
    /\ pc = "append_dump"
    /\ failed_file' = JsonArray(data)
    /\ pc' = "appended"
    /\ UNCHANGED <<start_index, songs, max_retries, client, i, attempt, e, result,
                   success_count, error_count, consecutive_errors, failed_songs,
                   halted, scrobbled_files, new_data, data, events, submitted,
                   before,
                   failed_at, other>>

---------------------------------------------------------------------------
(* The runs of main. *)

\* a client that never fails, one that fails for good, one that fails with a
\* server error, one that raises something else
Reliable == {}
BatchClients ==
    { Reliable,
      {[type |-> "WSError", text |-> TBad]},
      {[type |-> "WSError", text |-> T503]},
      {[type |-> "Exception", text |-> TBad]} }

\* the two log files as earlier runs left them: none yet, or one of each
OldFailure == FailedSong(Song(0), Msg("API error", 0, [type |-> "WSError", text |-> TBad]))
Fresh == [log |-> <<>>, failed |-> Absent]
Resumed == [log |-> <<"old.json">>, failed |-> JsonArray(<<OldFailure>>)]

\* a batch of a few songs
ShortBatch == 5

\* a batch long enough for the cooldown of line 136, given to the reliable client
LongBatch == COOLDOWN_EVERY + 1

\* a first run from the top of the file, or a resumed one whose 100th song
\* overall is the 5th of its batch
Scenarios ==
    [start : {0}, len : {0, ShortBatch, MaxBatch}, client : BatchClients,
     prior : {Fresh}]
    \cup [start : {PROGRESS_EVERY - 5}, len : {0, MaxBatch},
          client : {Reliable, {[type |-> "WSError", text |-> TBad]}},
          prior : {Resumed}]
    \cup [start : {0}, len : {LongBatch}, client : {Reliable}, prior : {Fresh}]

Start(sc, mr) ==
    /\ start_index = sc.start
    /\ songs = [k \in 1..sc.len |-> Song(sc.start + k)]
    /\ max_retries = mr
    /\ client = sc.client
    /\ i = 0
    /\ attempt = 0
    /\ e = NoError
    /\ result = NoResult
    /\ success_count = 0
    /\ error_count = 0
    /\ consecutive_errors = 0
    /\ failed_songs = <<>>
    /\ halted = FALSE
    /\ scrobbled_files = sc.prior.log
    /\ failed_file = sc.prior.failed
    /\ new_data = <<>>
    /\ data = <<>>
    /\ pc = IF sc.len > 0 THEN "call" ELSE "write_log"
    /\ events = <<>>
    /\ submitted = {}
    /\ before = sc.prior.failed
    /\ failed_at = {}
    /\ pc2 = "idle"
    /\ new_data2 = <<>>
    /\ data2 = <<>>
    /\ overlap = FALSE

Init == \E sc \in Scenarios : Start(sc, DEFAULT_MAX_RETRIES)

Next ==
    \/ ScrobbleReturns
    \/ ScrobbleRetries
    \/ BackoffSleep
    \/ ScrobbleFails
    \/ HandleSuccess
    \/ HandleFailure
    \/ PenaltySleep
    \/ DelaySleep
    \/ CooldownSleep
    \/ WriteLog
    \/ AppendLoad
    \/ AppendOpen
    \/ AppendDump
    \/ Summarize

Spec == Init /\ [][Next]_vars

\* the control thread keeps running until main returns
FairSpec == Spec /\ WF_vars(Next)

---------------------------------------------------------------------------
(* scrobble_with_retry called with any max_retries and a client that may   *)
(* raise any error on any call, for one song; its caller takes the result  *)
(* as main does.                                                           *)

AnyClient == [start |-> 0, len |-> 1, client |-> Errors, prior |-> Fresh]

RetryInit == \E mr \in 0..MaxRetriesArg : Start(AnyClient, mr)

RetryNext ==
    \/ ScrobbleReturns
    \/ ScrobbleRetries
    \/ BackoffSleep
    \/ ScrobbleFails
    \/ RetriesExceeded
    \/ HandleSuccess
    \/ HandleFailure

SpecRetry == RetryInit /\ [][RetryNext]_vars

---------------------------------------------------------------------------
(* append_json called again and again on the same file, each time with any *)
(* short list of failures.                                                 *)

FailureA == FailedSong(Song(1), Msg("API error", 0, [type |-> "WSError", text |-> TBad]))
FailureB == FailedSong(Song(2), Msg("Unexpected error", 0, [type |-> "Exception", text |-> TBad]))

RECURSIVE SeqsUpTo(_, _)
SeqsUpTo(S, n) ==
    IF n = 0 THEN {<<>>}
    ELSE SeqsUpTo(S, n - 1) \cup
         {Append(q, x) : q \in {r \in SeqsUpTo(S, n - 1) : Len(r) = n - 1}, x \in S}

NoRun == [start |-> 0, len |-> 0, client |-> Reliable, prior |-> Fresh]

LogInit ==
    /\ Start(NoRun, DEFAULT_MAX_RETRIES)
    /\ pc = "write_log"

\* line 30: append_json(file_path, new_data) is entered
AppendCall ==
    /\ pc \in {"write_log", "appended"}
    /\ failed_file.kind \in {"absent", "array"}
    /\ \E nd \in SeqsUpTo({FailureA, FailureB}, MaxNew) :
        /\ Len(failed_file.data) + Len(nd) <= MaxArtifact
        /\ new_data' = nd
    /\ before' = failed_file
    /\ pc' = "append_load"
    /\ UNCHANGED <<start_index, songs, max_retries, client, i, attempt, e, result,
                   success_count, error_count, consecutive_errors, failed_songs,
                   halted, scrobbled_files, failed_file, data, events, submitted,
                   failed_at, other>>

LogNext ==
    \/ AppendCall
    \/ AppendLoad
    \/ AppendOpen
    \/ AppendDump

SpecLog == LogInit /\ [][LogNext]_vars

---------------------------------------------------------------------------
(* Properties of a batch run. *)

PostLoop == {"write_log", "append_load", "append_open", "append_dump",
             "appended", "summary", "done"}

\* the current song has reached the client and main has not yet tallied its result
AttemptOpen == pc \in {"call", "backoff", "returned"} /\ i \in submitted

\* the songs whose result main has tallied
Processed == Cardinality(submitted) - (IF AttemptOpen THEN 1 ELSE 0)

\* C1: in every state of a batch run success_count + error_count is the
\* number of songs whose attempt has finished and been tallied; songs skipped
\* by the halt are in neither counter, so at the end of a halted run the sum
\* is the number of songs attempted and at most the length of the batch.
C1_TallyIsProcessed ==
    /\ success_count + error_count = Processed
    /\ submitted \subseteq 0..(Len(songs) - 1)
    /\ pc \in PostLoop =>
         /\ success_count + error_count = Cardinality(submitted)
         /\ success_count + error_count <= Len(songs)
    /\ halted => success_count + error_count = i + 1

\* a halted run has ended with songs left out of both counters
C1_Witness ==
    /\ pc = "done"
    /\ halted
    /\ error_count > 0
    /\ success_count + error_count < Len(songs)

\* C2: once consecutive_errors exceeds 10 the run halts (after the penalty
\* sleep of that failure): from then on no further song reaches the client,
\* no failure is recorded and error_count keeps its value; 11 failures in a
\* row from the first song leave error_count = 11 and the 12th song and all
\* later ones unattempted.
C2_HaltStopsRun ==
    /\ [](consecutive_errors > 10 => (pc = "penalty" \/ halted))
    /\ [](halted =>
            /\ consecutive_errors = 11
            /\ pc \in PostLoop
            /\ submitted = 0..i
            /\ Len(failed_songs) = error_count
            /\ \A k \in 1..Len(failed_songs) :
                 failed_songs[k].trackName <= start_index + i + 1
            /\ success_count = 0 => (error_count = 11 /\ submitted = 0..10))
    /\ [][consecutive_errors > 10 =>
            UNCHANGED <<submitted, failed_songs, error_count, success_count, i>>]_vars

\* a run halted by 11 failures in a row from the first song, the 12th unattempted
C2_Witness ==
    /\ pc = "done"
    /\ halted
    /\ error_count = 11
    /\ success_count = 0
    /\ Len(songs) >= 12
    /\ 11 \notin submitted

\* C3: a failed song never ends the batch by itself: a song is left
\* unattempted only when consecutive_errors exceeded 10 after an earlier one;
\* any number of failures apart, or up to 10 in a row, leave every song
\* attempted.
C3_OnlyThresholdAborts ==
    /\ \A k \in 0..(i - 1) : k \in submitted
    /\ (pc \in PostLoop /\ submitted # 0..(Len(songs) - 1)) =>
         (halted /\ consecutive_errors > 10)
    /\ (pc \in PostLoop /\ consecutive_errors <= 10) =>
         submitted = 0..(Len(songs) - 1)

\* a run with 11 failures, 10 of them in a row, that attempted every song
C3_Witness ==
    /\ pc = "done"
    /\ ~halted
    /\ error_count = 11
    /\ success_count = 1
    /\ submitted = 0..(Len(songs) - 1)

\* the song before the current one succeeded
PrevSucceeded ==
    /\ i > 0
    /\ \/ failed_songs = <<>>
       \/ failed_songs[Len(failed_songs)].trackName # start_index + i

HasEvent(evs, name) == \E k \in 1..Len(evs) : evs[k].ev = name

\* C4: a success sets consecutive_errors to 0 whatever it was (0 to 10), so
\* the failure that follows a success makes it exactly 1, with neither the
\* penalty sleep nor the halt.
C4_SuccessResets ==
    [][ /\ (pc = "returned" /\ result.ok) => consecutive_errors' = 0
        /\ (pc = "returned" /\ ~result.ok /\ PrevSucceeded) =>
             /\ consecutive_errors' = 1
             /\ pc' = "delay"
             /\ ~halted'
             /\ ~HasEvent(events', "penalty_notice")
             /\ ~HasEvent(events', "halt_notice") ]_vars

\* 10 failures in a row, a success, then a failure that counts as the first
C4_Witness ==
    /\ i = 11
    /\ success_count = 1
    /\ error_count = 11
    /\ consecutive_errors = 1
    /\ pc = "delay"

---------------------------------------------------------------------------
(* Properties of scrobble_with_retry. *)

IsCall(x) == x.ev = "call"
IsSleep(x) == x.ev = "sleep"
IsStep(x) == x.ev \in {"call", "sleep"}

Calls == SelectSeq(events, IsCall)
Sleeps == SelectSeq(events, IsSleep)
Steps == SelectSeq(events, IsStep)

\* a call that met a Transient failure: an error of the client library whose
\* text reports a server error, a timeout or a rate limit
TransientCall(x) == x.b \in {1, 2, 3} /\ x.c = 1

\* a call that met a Permanent failure: any other error of the client library
PermanentCall(x) == x.b \in {1, 2, 3} /\ x.c = 0

OkCall(x) == x.b = 0

\* calls and sleeps alternate, a sleep between each call and the next
Alternate ==
    /\ Len(Steps) = 2 * Len(Calls) - 1
    /\ \A n \in 1..Len(Steps) :
         IF n % 2 = 1
         THEN Steps[n].ev = "call" /\ Steps[n].a = (n + 1) \div 2
         ELSE Steps[n].ev = "sleep"

\* C5: when the client fails with Transient errors on the first k calls
\* (k < max_retries) and then succeeds, the function returns success after
\* k + 1 calls and k sleeps, the j-th sleep lasting min(60, 2^j) seconds and
\* lying between call j and call j + 1.
C5_RetriesThenSucceeds ==
    (/\ pc = "returned"
     /\ Len(Calls) >= 1
     /\ Len(Calls) <= max_retries
     /\ OkCall(Calls[Len(Calls)])
     /\ \A k \in 1..(Len(Calls) - 1) : TransientCall(Calls[k]))
    => /\ result.ok
       /\ result.error_msg = NoMsg
       /\ Len(Sleeps) = Len(Calls) - 1
       /\ Alternate
       /\ \A j \in 1..Len(Sleeps) :
            Sleeps[j].a = (IF 2^j < 60 THEN 2^j ELSE 60)

\* six Transient failures, then success: the sixth sleep is the capped one
C5_Witness ==
    /\ pc = "returned"
    /\ result.ok
    /\ Len(Calls) = 7
    /\ Len(Sleeps) = 6
    /\ Sleeps[6].a = 60

\* C6: a call that meets a Permanent failure ends the function at once: it
\* returns failure with that error, no sleep follows and no further call is
\* made, whatever max_retries (>= 1) is and whether the failure comes on the
\* first call or after Transient ones; on the first call that is 1 call and
\* no sleep.
C6_PermanentNotRetried ==
    \A k \in 1..Len(Calls) :
      PermanentCall(Calls[k]) =>
        /\ k = Len(Calls)
        /\ pc \notin {"call", "backoff"}
        /\ ~result.ok
        /\ result.error_msg = Msg("API error", 0, e)
        /\ PermanentCall(Raised(k, e))
        /\ Len(Sleeps) = k - 1
        /\ Alternate
        /\ \A j \in 1..(k - 1) : TransientCall(Calls[j])
        /\ k = 1 => Steps = <<Calls[1]>>

\* a Permanent failure on the fourth call, after three Transient ones
C6_Witness ==
    /\ pc = "returned"
    /\ max_retries = 7
    /\ Len(Calls) = 4
    /\ PermanentCall(Calls[4])
    /\ ~result.ok

\* C7: when every call meets a Transient failure, the function returns
\* failure after max_retries calls and max_retries - 1 sleeps, none after the
\* last call, with a message giving the number of attempts and the last
\* error; main then counts the song as failed: error_count and
\* consecutive_errors go up by one and the song joins failed_songs with that
\* message.
C7_ExhaustedIsFailure ==
    /\ []((/\ pc = "returned"
           /\ Len(Calls) >= 1
           /\ \A k \in 1..Len(Calls) : TransientCall(Calls[k]))
          => /\ ~result.ok
             /\ Len(Calls) = max_retries
             /\ Len(Sleeps) = max_retries - 1
             /\ Alternate
             /\ events[Len(events)].ev = "call"
             /\ result.error_msg = Msg("Server error after", max_retries, e)
             /\ TransientCall(Raised(max_retries, e)))
    /\ [][(pc = "returned" /\ ~result.ok) =>
            /\ error_count' = error_count + 1
            /\ consecutive_errors' = consecutive_errors + 1
            /\ failed_songs' =
                 Append(failed_songs,
                        [artistName |-> songs[i + 1].artistName,
                         trackName |-> songs[i + 1].trackName,
                         error |-> result.error_msg])]_vars

\* the default five attempts used up, and the song recorded as failed
C7_Witness ==
    /\ max_retries = 5
    /\ Len(Calls) = 5
    /\ TransientCall(Calls[5])
    /\ Len(Sleeps) = 4
    /\ error_count = 1
    /\ Len(failed_songs) = 1
    /\ failed_songs[1].error.prefix = "Server error after"
    /\ failed_songs[1].error.attempts = 5

\* the taxonomy of the design: a network error, a malformed response, or a
\* service error that reports 500/502/503, a timeout or a rate limit
TaxonomyTransient(x) == x.b \in {1, 2} \/ (x.b = 3 /\ x.c = 1)

\* C8: every client error that is a network error, a malformed response, a
\* 500/502/503 status, a timeout or a rate-limit signal is retried: a further
\* call follows while attempts remain; every other service-reported error is
\* not retried.
C8_TaxonomyDecidesRetry ==
    \A k \in 1..Len(Calls) :
      /\ (TaxonomyTransient(Calls[k]) /\ k < max_retries) =>
           (k < Len(Calls) \/ pc = "backoff")
      /\ (Calls[k].b = 3 /\ Calls[k].c = 0) =>
           (k = Len(Calls) /\ pc # "backoff")

---------------------------------------------------------------------------
(* Properties of the end of a run. *)

\* the failed songs are the submitted songs that were not counted successful
AllAccounted ==
    /\ success_count + Len(failed_songs) = Cardinality(submitted)
    /\ \A k \in 1..Len(failed_songs) :
         (failed_songs[k].trackName - start_index - 1) \in submitted

\* scrobbled_files.txt has gained the line of this batch
Logged ==
    /\ Len(scrobbled_files) >= 1
    /\ scrobbled_files[Len(scrobbled_files)] = file_basename
    /\ SubSeq(scrobbled_files, 1, Len(scrobbled_files) - 1) \in {<<>>, <<"old.json">>}

\* C9: whatever the client does on each call (it returns, or raises a
\* Transient, a Permanent or any other error), the run ends: every submitted
\* song ends up counted successful or recorded in failed_songs, or the run
\* halts, and main reaches its end with the batch's file name appended to
\* scrobbled_files.txt, halted or not.
C9_RunReachesFlush ==
    /\ <>(pc = "done" /\ Logged /\ AllAccounted)
    /\ [](pc \in {"summary", "append_load", "append_open", "append_dump",
                  "appended", "done"} => Logged)
    /\ [](pc \in PostLoop =>
            (AllAccounted /\ (halted \/ submitted = 0..(Len(songs) - 1))))

\* a halted run that reached the end of main with its line written
C9_Witness ==
    /\ pc = "done"
    /\ halted
    /\ Logged
    /\ client = {[type |-> "Exception", text |-> TBad]}

---------------------------------------------------------------------------
(* Properties of append_json. *)

\* the array failed_songs.json held when append_json was called
Prior == IF before.kind = "absent" THEN <<>> ELSE before.data

IsPrefix(p, q) == Len(p) <= Len(q) /\ SubSeq(q, 1, Len(p)) = p

\* C10: failed_songs.json only grows at its end, call after call: a call on
\* a missing file leaves a file holding the given events in order, and a call
\* on an existing one leaves the previous array followed by the given events
\* in order ([A] then [B] give [A, B]); no call leaves the array shorter or in
\* another order.
C10_AppendOnly ==
    /\ pc = "appended" =>
         /\ failed_file.kind = "array"
         /\ failed_file.data = Prior \o new_data
         /\ before.kind = "absent" => failed_file.data = new_data
    /\ pc \notin {"append_dump"} =>
         /\ failed_file.kind \in {"absent", "array"}
         /\ IsPrefix(Prior, failed_file.data)

\* [B] appended to a file that held [A]
C10_Witness ==
    /\ pc = "appended"
    /\ before = [kind |-> "array", data |-> <<FailureA>>]
    /\ new_data = <<FailureB>>
    /\ failed_file = [kind |-> "array", data |-> <<FailureA, FailureB>>]

---------------------------------------------------------------------------
(* Properties of the results of a run. *)

RECURSIVE Sorted(_)
\* the members of a set of numbers, smallest first
Sorted(S) ==
    IF S = {} THEN <<>>
    ELSE LET m == CHOOSE x \in S : \A y \in S : x <= y
         IN <<m>> \o Sorted(S \ {m})

\* what failed_songs.json has gained since main called append_json
Gained == SubSeq(failed_file.data, Len(Prior) + 1, Len(failed_file.data))

\* rec is the song at loop index idx with a failure message of this run's client
IsFailureOf(rec, idx) ==
    /\ rec.artistName = songs[idx + 1].artistName
    /\ rec.trackName = songs[idx + 1].trackName
    /\ rec.trackName = start_index + idx + 1
    /\ rec.error.prefix \in {"API error", "Server error after", "Unexpected error"}
    /\ \E err \in client : rec.error.text = err.text

\* q holds the failed songs, each once, in batch order
HoldsFailures(q) ==
    /\ Len(q) = Cardinality(failed_at)
    /\ \A k \in 1..Len(q) : IsFailureOf(q[k], Sorted(failed_at)[k])

\* C11: at the end of a run failed_songs.json has gained exactly the songs
\* whose attempt failed, in batch order, each with its own fields and its
\* error message, and the summary gives the number of successes, the number
\* of failures and the length of the batch (5 songs of which only the one at
\* index 2 fails: 4 successful, 1 failed out of 5, and that one song in the
\* file); a halted run writes its failures too.
C11_FailuresFlushed ==
    pc = "done" =>
      /\ IsPrefix(Prior, failed_file.data)
      /\ HoldsFailures(Gained)
      /\ failed_at # {} => failed_file.kind = "array"
      /\ events[Len(events)] =
           Ev("summary", Cardinality(submitted) - Cardinality(failed_at),
              Cardinality(failed_at), Len(songs))

\* 5 songs, the one at index 2 rejected by the service
C11_Witness ==
    /\ pc = "done"
    /\ Len(songs) = 5
    /\ failed_at = {2}
    /\ events[Len(events)] = Ev("summary", 4, 1, 5)
    /\ failed_file =
         JsonArray(<< [artistName |-> "artist", trackName |-> 3,
                       error |-> Msg("API error", 0,
                                     [type |-> "WSError", text |-> TBad])] >>)

---------------------------------------------------------------------------
(* append_json with the process killed part-way, and a later process       *)
(* calling it on what was left.                                            *)

\* the process is killed from outside while it is in append_json
Kill ==
    /\ pc \in {"append_load", "append_open", "append_dump"}
    /\ pc' = "killed"
    /\ UNCHANGED <<start_index, songs, max_retries, client, i, attempt, e, result,
                   success_count, error_count, consecutive_errors, failed_songs,
                   halted, scrobbled_files, failed_file, new_data, data, events,
                   submitted, before, failed_at, other>>

\* line 30 in a later process, after a kill or after json.load raised
CallAgain ==
    /\ pc \in {"killed", "raised"}
    /\ \E nd \in SeqsUpTo({FailureA, FailureB}, MaxNew) :
        /\ Len(failed_file.data) + Len(nd) <= MaxArtifact
        /\ new_data' = nd
    /\ before' = failed_file
    /\ pc' = "append_load"
    /\ UNCHANGED <<start_index, songs, max_retries, client, i, attempt, e, result,
                   success_count, error_count, consecutive_errors, failed_songs,
                   halted, scrobbled_files, failed_file, data, events, submitted,
                   failed_at, other>>

CrashNext ==
    \/ AppendCall
    \/ AppendLoad
    \/ AppendLoadFails
    \/ AppendOpen
    \/ AppendDump
    \/ Kill
    \/ CallAgain

SpecCrash == LogInit /\ [][CrashNext]_vars

\* C12: the write of failed_songs.json is atomic: in every state of a call
\* of append_json, the state a kill part-way leaves included, the file holds
\* the whole array it held at the call or that array followed by all the new
\* events, never no array, a cut one or a part of one.
C12_AtomicWrite ==
    failed_file \in {before, JsonArray(Prior \o new_data)}

---------------------------------------------------------------------------
(* Two processes, each at the end of its own run, call append_json once on *)
(* the same failed_songs.json; their steps interleave freely.              *)

InAppend == {"append_load", "append_open", "append_dump"}

\* the variables of the first process's run that append_json does not touch
run == <<start_index, songs, max_retries, client, i, attempt, e, result,
         success_count, error_count, consecutive_errors, failed_songs, halted,
         scrobbled_files, events, submitted, failed_at>>

RaceInit ==
    \E prior \in {Fresh, Resumed} :
        Start([start |-> 0, len |-> 0, client |-> Reliable, prior |-> prior],
              DEFAULT_MAX_RETRIES)

\* line 30, first process
Call1 ==
    /\ pc = "write_log"
    /\ \E nd \in SeqsUpTo({FailureA}, MaxNew) \ {<<>>} : new_data' = nd
    /\ before' = failed_file
    /\ overlap' = (overlap \/ pc2 \in InAppend)
    /\ pc' = "append_load"
    /\ UNCHANGED <<run, failed_file, data, pc2, new_data2, data2>>

\* line 30, second process
Call2 ==
    /\ pc2 = "idle"
    /\ \E nd \in SeqsUpTo({FailureB}, MaxNew) \ {<<>>} : new_data2' = nd
    /\ overlap' = (overlap \/ pc \in InAppend)
    /\ pc2' = "append_load"
    /\ UNCHANGED <<run, failed_file, new_data, data, pc, before, data2>>

\* lines 34-41, second process
Load2 ==
    /\ pc2 = "append_load"
    /\ failed_file.kind \in {"absent", "array"}
    /\ data2' = Extended(Loaded(failed_file), new_data2)
    /\ pc2' = "append_open"
    /\ UNCHANGED <<run, failed_file, new_data, data, pc, before, new_data2, overlap>>

\* line 36, second process, on a file the first has truncated
LoadFails2 ==
    /\ pc2 = "append_load"
    /\ failed_file.kind = "empty"
    /\ pc2' = "raised"
    /\ UNCHANGED <<run, failed_file, new_data, data, pc, before, new_data2, data2,
                   overlap>>

\* line 44, second process
Open2 ==
    /\ pc2 = "append_open"
    /\ failed_file' = NoBytes
    /\ pc2' = "append_dump"
    /\ UNCHANGED <<run, new_data, data, pc, before, new_data2, data2, overlap>>

\* lines 45-47, second process
Dump2 ==
    /\ pc2 = "append_dump"
    /\ failed_file' = JsonArray(data2)
    /\ pc2' = "appended"
    /\ UNCHANGED <<run, new_data, data, pc, before, new_data2, data2, overlap>>

RaceNext ==
    \/ Call1
    \/ AppendLoad
    \/ AppendLoadFails
    \/ AppendOpen
    \/ AppendDump
    \/ Call2
    \/ Load2
    \/ LoadFails2
    \/ Open2
    \/ Dump2

SpecRace == RaceInit /\ [][RaceNext]_vars

\* both calls have ended, by a return or by an exception
BothEnded == pc \in {"appended", "raised"} /\ pc2 \in {"appended", "raised"}

\* C13: append_json is not safe with two writers: when the steps of two
\* calls on the same file interleave, the file can end up without records one
\* of them wrote; when one call runs at a time no record is lost, and both
\* calls return with the file holding the records of both.
C13_OneWriterLosesNothing ==
    (BothEnded /\ ~overlap) =>
      /\ pc = "appended"
      /\ pc2 = "appended"
      /\ failed_file.kind = "array"
      /\ Contains(failed_file.data, new_data)
      /\ Contains(failed_file.data, new_data2)
      /\ Len(failed_file.data) >= Len(new_data) + Len(new_data2)

\* both calls returned, their steps interleaved, and the first one's records
\* are not in the file
C13_Witness ==
    /\ pc = "appended"
    /\ pc2 = "appended"
    /\ overlap
    /\ failed_file.kind = "array"
    /\ ~Contains(failed_file.data, new_data)
    /\ Contains(failed_file.data, new_data2)

---------------------------------------------------------------------------
(* Properties of the pacing of a batch run. *)

\* how many events of that name, and where the first one is (0 if none)
Count(evs, name) == Cardinality({k \in 1..Len(evs) : evs[k].ev = name})
At(evs, name) ==
    IF HasEvent(evs, name)
    THEN CHOOSE k \in 1..Len(evs) :
            evs[k].ev = name /\ \A j \in 1..(k - 1) : evs[j].ev # name
    ELSE 0

\* the loop body of one song is over, and events holds all it did: the
\* next song is about to make its first call, or the loop has ended
ItemOver ==
    \/ pc = "call" /\ attempt = 0 /\ i > 0
    \/ pc \in PostLoop /\ Len(songs) > 0

\* the song whose loop body is over
LastItem == IF pc \in PostLoop THEN i ELSE i - 1
LastFailed == LastItem \in failed_at

\* C14: a penalty sleep happens after a song exactly when it failed and
\* consecutive_errors, incremented, exceeds 3; it lasts
\* min(60, consecutive_errors * 10) seconds (40, 50, then 60), comes before
\* the halt check and before the delay between songs, and for
\* consecutive_errors in 4..10 that delay follows it.
C14_PenaltySleep ==
    /\ pc = "penalty" =>
         /\ ~result.ok
         /\ i \in failed_at
         /\ consecutive_errors > 3
         /\ ~halted
         /\ ~HasEvent(events, "halt_notice")
         /\ ~HasEvent(events, "delay")
    /\ ItemOver =>
         /\ Count(events, "penalty_sleep") =
              (IF LastFailed /\ consecutive_errors > 3 THEN 1 ELSE 0)
         /\ HasEvent(events, "penalty_sleep") =>
              LET p == At(events, "penalty_sleep")
                  c == consecutive_errors
              IN /\ events[p].a = (IF c * 10 < 60 THEN c * 10 ELSE 60)
                 /\ (c = 4 /\ events[p].a = 40) \/ (c = 5 /\ events[p].a = 50)
                      \/ (c >= 6 /\ events[p].a = 60)
                 /\ p >= 3
                 /\ events[p - 2].ev = "error_notice"
                 /\ events[p - 1].ev = "penalty_notice"
                 /\ \A k \in 1..p : events[k].ev \notin {"halt_notice", "delay"}
                 /\ Len(events) > p
                 /\ c \in 4..10 => (events[p + 1].ev = "delay" /\ ~halted)
                 /\ c > 10 => (events[p + 1].ev = "halt_notice" /\ halted)

\* the sixth failure in a row has been followed by a sleep of 60 seconds and
\* then by the delay between songs
C14_Witness ==
    /\ pc = "call"
    /\ attempt = 0
    /\ consecutive_errors = 6
    /\ (i - 1) \in failed_at
    /\ HasEvent(events, "penalty_sleep")
    /\ events[At(events, "penalty_sleep")].a = 60
    /\ events[Len(events)].ev = "delay"

\* what main emits after the loop
AfterLoop == {"added_notice", "wrote_notice", "summary"}

\* C15: after every song that does not trigger the halt there is exactly one
\* delay and then, if and only if the 1-based count of songs processed in
\* this run is a multiple of 500, a cooldown notice followed by a sleep of 120
\* seconds, all before the next song's first call; after the song that
\* triggers the halt there is neither the delay nor the cooldown.
C15_DelayThenCooldown ==
    /\ pc = "cooldown" => ((i + 1) % 500 = 0 /\ ~halted)
    /\ ItemOver =>
         IF halted
         THEN /\ Count(events, "delay") = 0
              /\ Count(events, "cooldown_notice") = 0
              /\ Count(events, "cooldown_sleep") = 0
         ELSE LET d == At(events, "delay")
                  n == LastItem + 1
                  due == (n % 500 = 0)
                  last == IF due THEN d + 2 ELSE d
              IN /\ Count(events, "delay") = 1
                 /\ Count(events, "cooldown_notice") = (IF due THEN 1 ELSE 0)
                 /\ Count(events, "cooldown_sleep") = (IF due THEN 1 ELSE 0)
                 /\ Len(events) >= last
                 /\ due => /\ events[d + 1] = Ev("cooldown_notice", n, 0, 0)
                           /\ events[d + 2] = Ev("cooldown_sleep", 120, 0, 0)
                 /\ pc = "call" => Len(events) = last
                 /\ \A k \in (last + 1)..Len(events) : events[k].ev \in AfterLoop

\* the 501st song is about to make its first call, after the delay, the
\* cooldown notice and the sleep of 120 seconds that followed the 500th
C15_Witness ==
    /\ pc = "call"
    /\ attempt = 0
    /\ i = 500
    /\ Count(events, "delay") = 1
    /\ Len(events) >= 3
    /\ events[Len(events) - 2].ev = "delay"
    /\ events[Len(events) - 1].ev = "cooldown_notice"
    /\ events[Len(events)] = Ev("cooldown_sleep", 120, 0, 0)

\* the 1-based index of the song whose loop body is over, across the whole
\* batch
OverallIndex == start_index + LastItem + 1

\* C16: a progress notice with the tallies is emitted for every 100th song
\* overall, the index being 1-based and including start_index, and for no
\* other song; it reports the success_count and error_count that hold after
\* that song.
C16_ProgressEveryHundredth ==
    ItemOver =>
      /\ Count(events, "progress") = (IF OverallIndex % 100 = 0 THEN 1 ELSE 0)
      /\ HasEvent(events, "progress") =>
           events[At(events, "progress")] =
             Ev("progress", OverallIndex, success_count, error_count)

---------------------------------------------------------------------------
(* More properties of scrobble_with_retry. *)

\* a call that raised an exception of a class line 62 does not name
UncategorizedCall(x) == x.b = 4

\* C17: an exception of a class the first except clause does not name is a
\* failure that is not retried: the function returns failure with the
\* "Unexpected error" message straight after that call, with no sleep and no
\* further call, on whichever attempt it comes and whatever its text says.
C17_UncategorizedNotRetried ==
    \A k \in 1..Len(Calls) :
      UncategorizedCall(Calls[k]) =>
        /\ k = Len(Calls)
        /\ pc \notin {"call", "backoff"}
        /\ ~result.ok
        /\ result.error_msg = Msg("Unexpected error", 0, e)
        /\ ~Caught(e)
        /\ Calls[k] = Raised(k, e)
        /\ Len(Sleeps) = k - 1
        /\ Alternate
        /\ Steps[Len(Steps)] = Calls[k]
        /\ \A j \in 1..(k - 1) : TransientCall(Calls[j])

\* an Exception whose text reports a server error, on the third call, after
\* two Transient failures: the function has returned failure
C17_Witness ==
    /\ pc = "returned"
    /\ Len(Calls) = 3
    /\ UncategorizedCall(Calls[3])
    /\ Calls[3].c = 1
    /\ Len(Sleeps) = 2
    /\ result = [ok |-> FALSE, error_msg |-> Msg("Unexpected error", 0, e)]

---------------------------------------------------------------------------
(* More properties of the results of a run. *)

\* C18: when a run ends with failed_songs empty, failed_songs.json is left
\* as it was: not created when absent, neither read nor rewritten when
\* present, while scrobbled_files.txt still gains its one line.
C18_EmptyListLeavesFile ==
    /\ [](failed_songs = <<>> =>
            /\ failed_file = before
            /\ pc \notin InAppend \cup {"appended", "raised", "killed"}
            /\ data = <<>>
            /\ new_data = <<>>
            /\ ~HasEvent(events, "wrote_notice"))
    /\ []((pc = "done" /\ failed_songs = <<>>) =>
            /\ Logged
            /\ events[Len(events) - 1].ev = "added_notice")
    /\ [][(failed_songs = <<>> /\ failed_songs' = <<>>) =>
            /\ failed_file' = failed_file
            /\ pc = "write_log" =>
                 /\ pc' = "summary"
                 /\ scrobbled_files' = Append(scrobbled_files, file_basename)]_vars

\* a run of some songs, all scrobbled, has ended: no failed_songs.json, and
\* the batch's line is in scrobbled_files.txt
C18_Witness ==
    /\ pc = "done"
    /\ failed_songs = <<>>
    /\ Len(songs) > 0
    /\ success_count = Len(songs)
    /\ failed_file = Absent
    /\ scrobbled_files = <<file_basename>>

\* the failed songs main has recorded: the current one is recorded when
\* main handles the result
Recorded == IF pc = "returned" THEN failed_at \ {i} ELSE failed_at

\* C19: in every state of a run failed_songs has exactly error_count entries,
\* in batch order, each the song as it was in the batch plus the error
\* message scrobble_with_retry returned for it; an entry once appended is
\* never changed or removed.
C19_FailureList ==
    /\ [](/\ Len(failed_songs) = error_count
          /\ Len(failed_songs) = Cardinality(Recorded)
          /\ \A k \in 1..Len(failed_songs) :
               IsFailureOf(failed_songs[k], Sorted(Recorded)[k])
          /\ \A k \in 1..(Len(failed_songs) - 1) :
               failed_songs[k].trackName < failed_songs[k + 1].trackName)
    /\ [][/\ IsPrefix(failed_songs, failed_songs')
          /\ Len(failed_songs') <= Len(failed_songs) + 1
          /\ Len(failed_songs') = Len(failed_songs) + 1 =>
               /\ pc = "returned"
               /\ ~result.ok
               /\ failed_songs'[Len(failed_songs')] =
                    [artistName |-> songs[i + 1].artistName,
                     trackName |-> songs[i + 1].trackName,
                     error |-> result.error_msg]]_vars

\* the songs at indices 1 and 4 have been recorded, in that order, with
\* successes between them and after
C19_Witness ==
    /\ failed_at = {1, 4}
    /\ i = 6
    /\ pc = "call"
    /\ error_count = 2
    /\ Len(failed_songs) = 2
    /\ failed_songs[1].trackName = start_index + 2
    /\ failed_songs[2].trackName = start_index + 5
    /\ failed_songs[1].error.prefix = "API error"

---------------------------------------------------------------------------
(* The streak of failures. *)

\* the song main has handled last (-1 before the first)
MostRecent ==
    IF pc \in {"call", "backoff", "returned"} THEN i - 1
    ELSE IF Len(songs) = 0 THEN 0 - 1 ELSE i

\* the length of the run of failed songs that ends at song k
RECURSIVE Streak(_)
Streak(k) == IF k < 0 \/ k \notin failed_at THEN 0 ELSE 1 + Streak(k - 1)

StreakBounds ==
    /\ consecutive_errors = Streak(MostRecent)
    /\ 0 <= consecutive_errors
    /\ consecutive_errors <= error_count
    /\ consecutive_errors <= 11

\* C20, as stated: in every state of a run consecutive_errors is the length
\* of the run of failed songs that ends at the song handled last (0 if it
\* succeeded), so 0 <= consecutive_errors <= error_count and
\* consecutive_errors <= 11; the run is halted exactly when
\* consecutive_errors = 11.
C20_HaltedIffEleven ==
    /\ StreakBounds
    /\ halted <=> consecutive_errors = 11

\* C20, amended: the same, except that the run is halted exactly when
\* consecutive_errors = 11 and the halt check of line 128 has been reached,
\* which is after the penalty sleep of the eleventh failure; during that
\* sleep consecutive_errors is 11 and the run is not halted yet.
C20_HaltedAfterSleep ==
    /\ StreakBounds
    /\ halted <=> (consecutive_errors = 11 /\ pc # "penalty")
    /\ pc = "penalty" => ~halted

\* a success, then eleven failures in a row: main sleeps its penalty of 60
\* seconds, the halt check still ahead
C20_Witness ==
    /\ pc = "penalty"
    /\ consecutive_errors = 11
    /\ error_count = 11
    /\ success_count = 1
    /\ Streak(i) = 11
    /\ ~halted

===========================================================================
